---- MODULE Spec2Model ----
(***************************************************************************)
(* A model of app.py, the Streamlit "AI Web Scraper Chatbot".              *)
(*                                                                         *)
(* Two specifications share the module's variables:                        *)
(*   SpecExtract  one call of extract_visible_text, statement by statement *)
(*                (fetch, noise removal, link collection, the content walk *)
(*                one descendant at a time, terminal flush, return), over  *)
(*                every parsed page of three bounded families;             *)
(*   Spec         the script as Streamlit runs it: every widget            *)
(*                interaction re-executes app.py from its first line, and  *)
(*                a click on "Extract Content" runs the button's block.    *)
(*                                                                         *)
(* Python strings are sequences of one-character strings, so that strip,   *)
(* upper, join, startswith, "in" and sorted are computed, not assumed.     *)
(*                                                                         *)
(* A parsed page is the pre-order sequence of its elements; each element   *)
(* carries its tag name, its depth, the text node that is its first child  *)
(* (<<>> when it has none) and its href attribute.                         *)
(***************************************************************************)
EXTENDS Integers, Sequences, FiniteSets, TLC

VARIABLES
    \* ---- one call of extract_visible_text (app.py 69-118)
    xpc,              \* position inside extract_visible_text
    response,         \* extract_visible_text's "response": the page as fetched
                      \* and parsed (lines 72-74), <<>> before
    soup,             \* the live tree, mutated by decompose (line 74-78)
    social_links,     \* line 82
    content_blocks,   \* line 87
    current_heading,  \* line 88: index into soup, 0 for None
    block,            \* line 89
    it,               \* the iterator of line 91: next index of soup to visit
    ret,              \* which return statement ran: "none", "visible_text",
                      \* "request_error", "unexpected_error", or "raised"
    result,           \* the returned string
    \* ---- the script under Streamlit (app.py 44-46, 175-206)
    pc,               \* position inside the script run
    uuid_next,        \* uuid.uuid4(): the next fresh identifier
    session_id,       \* line 45
    chat_history,     \* line 46
    last_url,         \* st.session_state.last_url
    shown,            \* st.session_state.response
    user_input,       \* the text_input's value, line 182
    raw,              \* line 193
    reply,            \* the handler's variable "response" (lines 189-200)
    container,        \* the Cosmos container: the items upserted, in order
    calls,            \* the calls made by the current script run
    uncaught,         \* the exception that ended the current script run
    submissions       \* history: one entry per click of Extract Content

xvars == <<xpc, response, soup, social_links, content_blocks, current_heading,
           block, it, ret, result>>
hvars == <<pc, uuid_next, session_id, chat_history, last_url, shown, user_input,
           raw, reply, container, calls, uncaught, submissions>>
vars == <<xpc, response, soup, social_links, content_blocks, current_heading,
          block, it, ret, result, pc, uuid_next, session_id, chat_history,
          last_url, shown, user_input, raw, reply, container, calls, uncaught,
          submissions>>

-----------------------------------------------------------------------------
(* Bounds of the model.                                                    *)

MaxTreeNodes == 4
MaxWalkItems == 4
MaxLinks == 4
MaxSubmissions == 3

-----------------------------------------------------------------------------
(* Python str operations.                                                  *)

LowerCase ==
    <<"a","b","c","d","e","f","g","h","i","j","k","l","m",
      "n","o","p","q","r","s","t","u","v","w","x","y","z">>

UpperCase ==
    <<"A","B","C","D","E","F","G","H","I","J","K","L","M",
      "N","O","P","Q","R","S","T","U","V","W","X","Y","Z">>

Digits == <<"0","1","2","3","4","5","6","7","8","9">>

Index(alphabet, c) == CHOOSE i \in DOMAIN alphabet : alphabet[i] = c

\* ord(c), for the characters that occur in the pages and URLs of the model
Code(c) ==
    IF \E i \in DOMAIN LowerCase : LowerCase[i] = c THEN 96 + Index(LowerCase, c)
    ELSE IF \E i \in DOMAIN UpperCase : UpperCase[i] = c THEN 64 + Index(UpperCase, c)
    ELSE IF \E i \in DOMAIN Digits : Digits[i] = c THEN 47 + Index(Digits, c)
    ELSE IF c = "\t" THEN 9
    ELSE IF c = "\n" THEN 10
    ELSE IF c = "\r" THEN 13
    ELSE IF c = " " THEN 32
    ELSE IF c = "." THEN 46
    ELSE IF c = "/" THEN 47
    ELSE IF c = ":" THEN 58
    ELSE IF c = "=" THEN 61
    ELSE 128

\* str.isspace for one character
IsSpace(c) == c \in {" ", "\t", "\n", "\r"}

\* str.upper for one character
UpperChar(c) ==
    IF \E i \in DOMAIN LowerCase : LowerCase[i] = c
    THEN UpperCase[Index(LowerCase, c)]
    ELSE c

\* str.upper
Upper(s) == [i \in DOMAIN s |-> UpperChar(s[i])]

\* str.strip
Strip(s) ==
    LET keep == {i \in DOMAIN s : ~IsSpace(s[i])}
    IN  IF keep = {} THEN <<>>
        ELSE LET lo == CHOOSE i \in keep : \A j \in keep : i <= j
                 hi == CHOOSE i \in keep : \A j \in keep : j <= i
             IN  SubSeq(s, lo, hi)

\* str.startswith
StartsWith(s, p) == Len(s) >= Len(p) /\ SubSeq(s, 1, Len(p)) = p

\* the "in" operator on strings: sub in s
Contains(s, sub) ==
    \E i \in 1..(Len(s) - Len(sub) + 1) : SubSeq(s, i, i + Len(sub) - 1) = sub

RECURSIVE Join(_, _)
\* sep.join(parts)
Join(parts, sep) ==
    IF parts = <<>> THEN <<>>
    ELSE IF Len(parts) = 1 THEN parts[1]
    ELSE parts[1] \o sep \o Join(Tail(parts), sep)

\* s < t for Python strings: code point by code point, a proper prefix first
StrLess(s, t) ==
    \E k \in 1..(Len(t)) :
        /\ \A j \in 1..(k - 1) : j <= Len(s) /\ s[j] = t[j]
        /\ \/ k = Len(s) + 1
           \/ k <= Len(s) /\ Code(s[k]) < Code(t[k])

RECURSIVE Sorted(_)
\* sorted(a set of strings)
Sorted(S) ==
    IF S = {} THEN <<>>
    ELSE LET m == CHOOSE x \in S : \A y \in S \ {x} : StrLess(x, y)
         IN  <<m>> \o Sorted(S \ {m})

\* filter(None, list of strings)
FilterNone(parts) == SelectSeq(parts, LAMBDA b : b # <<>>)

-----------------------------------------------------------------------------
(* String literals of app.py.                                              *)

S_ERROR == <<"E","R","R","O","R">>
S_ERROR_colon == <<"E","R","R","O","R",":">>
S_http == <<"h","t","t","p">>
S_scrape_failed ==
    <<"E","R","R","O","R",":"," ","F","a","i","l","e","d"," ","t","o"," ",
      "s","c","r","a","p","e"," ","t","h","e"," ","p","a","g","e",":"," ">>
S_unexpected ==
    <<"E","R","R","O","R",":"," ","A","n"," ","u","n","e","x","p","e","c",
      "t","e","d"," ","e","r","r","o","r"," ","o","c","c","u","r","r","e",
      "d"," ","d","u","r","i","n","g"," ","s","c","r","a","p","i","n","g",
      ":"," ">>
\* line 189; the message's leading cross-mark emoji is written "!"
S_invalid_url ==
    <<"!"," ","P","l","e","a","s","e"," ","e","n","t","e","r"," ","a"," ","v","a",
      "l","i","d"," ","U","R","L"," ","s","t","a","r","t","i","n","g"," ",
      "w","i","t","h"," ","h","t","t","p"," ","o","r"," ","h","t","t","p",
      "s",".">>
S_open == <<"=","=","="," ">>
S_close == <<" ","=","=","=","\n">>
S_social_heading ==
    <<"=","=","="," ","S","O","C","I","A","L"," ","M","E","D","I","A"," ",
      "L","I","N","K","S"," ","=","=","=","\n">>

\* line 77
Denylist ==
    {"script", "style", "header", "footer", "nav", "form", "noscript", "svg",
     "aside", "dialog", "iframe"}

\* line 81
social_domains ==
    << <<"f","a","c","e","b","o","o","k",".","c","o","m">>,
       <<"t","w","i","t","t","e","r",".","c","o","m">>,
       <<"l","i","n","k","e","d","i","n",".","c","o","m">>,
       <<"i","n","s","t","a","g","r","a","m",".","c","o","m">>,
       <<"y","o","u","t","u","b","e",".","c","o","m">>,
       <<"t",".","m","e">>,
       <<"w","a",".","m","e">> >>

\* line 92
HeadingTags == {"h1", "h2", "h3", "h4", "h5", "h6"}

\* line 97
TextTags == {"p", "li", "div", "span"}

-----------------------------------------------------------------------------
(* The parsed tree (BeautifulSoup).                                        *)

\* The last index of the subtree rooted at element i of the pre-order doc.
End(doc, i) ==
    CHOOSE j \in i..Len(doc) :
        /\ \A k \in (i + 1)..j : doc[k].depth > doc[i].depth
        /\ j = Len(doc) \/ doc[j + 1].depth <= doc[i].depth

\* i and its descendants
Subtree(doc, i) == i..End(doc, i)

RECURSIVE Without(_, _)
\* doc with the elements at the indexes of gone taken out of the tree
Without(doc, gone) ==
    IF doc = <<>> THEN <<>>
    ELSE LET front == Without(SubSeq(doc, 1, Len(doc) - 1), gone)
         IN  IF Len(doc) \in gone THEN front ELSE Append(front, doc[Len(doc)])

\* DecomposeNoise with "nav" missing from the list of line 77
DecomposeNoiseWithoutNav(doc) ==
    Without(doc, UNION {Subtree(doc, i) :
                          i \in {k \in DOMAIN doc : doc[k].tag \in Denylist \ {"nav"}}})

\* lines 77-78: for tag in soup([...]): tag.decompose()
\* (every element of a denylisted tag is excised with all its descendants)
DecomposeNoise(doc) ==
    Without(doc, UNION {Subtree(doc, i) : i \in {k \in DOMAIN doc : doc[k].tag \in Denylist}})

RECURSIVE TextFrom(_, _, _)
\* the stripped, non-empty text nodes of elements i..j, concatenated
TextFrom(doc, i, j) ==
    IF i > j THEN <<>> ELSE Strip(doc[i].text) \o TextFrom(doc, i + 1, j)

\* element.get_text(strip=True): every text node below the element, each
\* stripped, the empty ones dropped, joined with the empty separator
GetText(doc, i) == TextFrom(doc, i, End(doc, i))

\* line 84: any(domain in a["href"] for domain in social_domains)
IsSocial(href) == \E d \in DOMAIN social_domains : Contains(href, social_domains[d])

\* lines 82-85
CollectSocialLinks(doc) ==
    {Strip(doc[i].href) :
        i \in {k \in DOMAIN doc :
                 doc[k].tag = "a" /\ doc[k].has_href /\ IsSocial(doc[k].href)}}

\* soup.body: the first body element of the tree, 0 for None
Body(doc) ==
    IF \E i \in DOMAIN doc : doc[i].tag = "body"
    THEN CHOOSE i \in DOMAIN doc :
             doc[i].tag = "body" /\ \A j \in 1..(i - 1) : doc[j].tag # "body"
    ELSE 0

\* lines 94 and 103: the heading-labelled block
HeadingBlock(doc, heading, blk) ==
    S_open \o Upper(GetText(doc, heading)) \o S_close \o Strip(Join(blk, <<" ">>))

\* line 105: the unlabelled block
BareBlock(blk) == Strip(Join(blk, <<"\n">>))

\* VisitHeading that also flushes the text collected before the first heading
VisitHeadingFlushingBare(doc, w, i) ==
    [content_blocks |->
        IF w.current_heading # 0 /\ w.block # <<>>
        THEN Append(w.content_blocks, HeadingBlock(doc, w.current_heading, w.block))
        ELSE IF w.block # <<>>
        THEN Append(w.content_blocks, BareBlock(w.block))
        ELSE w.content_blocks,
     current_heading |-> i,
     block |-> <<>>]

\* VisitHeading that starts the next heading without flushing the previous one
VisitHeadingWithoutFlush(doc, w, i) ==
    [content_blocks |-> w.content_blocks,
     current_heading |-> i,
     block |-> <<>>]

\* lines 92-96: the walk visits a heading; w is the walk's state
VisitHeading(doc, w, i) ==
    [content_blocks |->
        IF w.current_heading # 0 /\ w.block # <<>>
        THEN Append(w.content_blocks, HeadingBlock(doc, w.current_heading, w.block))
        ELSE w.content_blocks,
     current_heading |-> i,
     block |-> <<>>]

\* lines 97-100: the walk visits a p, li, div or span
VisitText(doc, w, i) ==
    [content_blocks |-> w.content_blocks,
     current_heading |-> w.current_heading,
     block |-> IF GetText(doc, i) # <<>> THEN Append(w.block, GetText(doc, i))
               ELSE w.block]

\* lines 91-100: one iteration of the loop over soup.body.descendants
Visit(doc, w, i) ==
    IF doc[i].tag \in HeadingTags THEN VisitHeading(doc, w, i)
    ELSE IF doc[i].tag \in TextTags THEN VisitText(doc, w, i)
    ELSE w

\* TerminalFlush without the "and block" guard of line 102
TerminalFlushUnguarded(doc, w) ==
    IF w.current_heading # 0
    THEN Append(w.content_blocks, HeadingBlock(doc, w.current_heading, w.block))
    ELSE IF w.block # <<>>
    THEN Append(w.content_blocks, BareBlock(w.block))
    ELSE w.content_blocks

\* lines 102-105: the terminal flush
TerminalFlush(doc, w) ==
    IF w.current_heading # 0 /\ w.block # <<>>
    THEN Append(w.content_blocks, HeadingBlock(doc, w.current_heading, w.block))
    ELSE IF w.block # <<>>
    THEN Append(w.content_blocks, BareBlock(w.block))
    ELSE w.content_blocks

RECURSIVE Reverse(_)
Reverse(q) == IF q = <<>> THEN <<>> ELSE Append(Reverse(Tail(q)), Head(q))

\* AppendSocial listing the links in descending order
AppendSocialDescending(blocks, links) ==
    IF links # {}
    THEN Append(blocks, S_social_heading \o Join(Reverse(Sorted(links)), <<"\n">>))
    ELSE blocks

\* lines 108-110
AppendSocial(blocks, links) ==
    IF links # {}
    THEN Append(blocks, S_social_heading \o Join(Sorted(links), <<"\n">>))
    ELSE blocks

\* line 112
VisibleText(blocks) == Join(FilterNone(blocks), <<"\n", "\n">>)

-----------------------------------------------------------------------------
(* Exceptions.                                                             *)

\* requests.exceptions.RequestException and the subclasses requests.get and
\* raise_for_status raise (lines 72-73)
RequestExceptions == {"ConnectionError", "Timeout", "HTTPError", "MissingSchema"}

\* str(e) of the exceptions of the model
ExcMessage(exc) ==
    IF exc = "ConnectionError" THEN <<"r","e","f","u","s","e","d">>
    ELSE IF exc = "Timeout" THEN <<"t","i","m","e","d"," ","o","u","t">>
    ELSE IF exc = "HTTPError" THEN <<"4","0","4">>
    ELSE IF exc = "MissingSchema" THEN <<"n","o"," ","s","c","h","e","m","e">>
    ELSE <<"N","o","n","e","T","y","p","e">>

\* Handle without the except clause of line 117
HandleRequestOnly(exc) ==
    IF exc \in RequestExceptions
    THEN [ret |-> "request_error", result |-> S_scrape_failed \o ExcMessage(exc)]
    ELSE [ret |-> "raised", result |-> <<>>]

\* lines 115-118: the two except clauses of extract_visible_text
Handle(exc) ==
    IF exc \in RequestExceptions
    THEN [ret |-> "request_error", result |-> S_scrape_failed \o ExcMessage(exc)]
    ELSE [ret |-> "unexpected_error", result |-> S_unexpected \o ExcMessage(exc)]

-----------------------------------------------------------------------------
(* The pages of the model: what response.text parses to.                   *)

\* the text of the element at position i of a page: one letter of its own
Letters == <<"p", "q", "r", "u", "v", "w", "y", "z", "j", "k">>
Word(i) == <<" ", Letters[i], "\n">>

MkNode(kind, depth, i) ==
    [tag |-> IF kind \in {"a_1", "a_2", "a_1s", "a_x", "a_none"} THEN "a"
             ELSE IF kind = "span_ws" THEN "span"
             ELSE kind,
     depth |-> depth,
     text |-> IF kind \in {"h2", "p", "nav", "td"} THEN Word(i)
              ELSE IF kind = "span_ws" THEN <<" ">>
              ELSE <<>>,
     has_href |-> kind \in {"a_1", "a_2", "a_1s", "a_x"},
     href |-> IF kind = "a_1" THEN <<"t",".","m","e","/","1">>
              ELSE IF kind = "a_2" THEN <<"t",".","m","e","/","2">>
              ELSE IF kind = "a_1s" THEN <<" ","t",".","m","e","/","1">>
              ELSE IF kind = "a_x" THEN <<"x",".","i","o","/","3">>
              ELSE <<>>]

\* The depth sequences of the pre-orders of n elements: the first element at
\* depth 1, the others at depth lo..hi and at most one below their predecessor.
Shapes(n, lo, hi) ==
    {f \in [1..n -> 1..hi] :
        /\ f[1] = 1
        /\ \A i \in 2..n : f[i] >= lo /\ f[i] <= f[i - 1] + 1}

\* the page of the given element kinds and depths
MkPage(kinds, depths) == [i \in DOMAIN kinds |-> MkNode(kinds[i], depths[i], i)]

TreeKinds == {"body", "h2", "p", "nav", "a_1"}
WalkKinds == {"h2", "p", "span_ws", "td"}
LinkKinds == {"a_1", "a_2", "a_1s", "a_x", "a_none", "p"}

\* page is any tree of up to MaxTreeNodes elements
IsTreeDoc(page) ==
    \E n \in 1..MaxTreeNodes :
        \E depths \in Shapes(n, 1, n) :
            \E kinds \in [1..n -> TreeKinds] :
                page = MkPage(kinds, depths)

\* page is a body holding any tree of up to MaxWalkItems headings, containers
\* and table cells
IsWalkDoc(page) ==
    \E n \in 1..MaxWalkItems :
        \E depths \in Shapes(n + 1, 2, n + 1) :
            \E kinds \in [2..(n + 1) -> WalkKinds] :
                page = MkPage([i \in 1..(n + 1) |-> IF i = 1 THEN "body" ELSE kinds[i]],
                              depths)

\* page is a body holding up to MaxLinks anchors and paragraphs
IsLinkDoc(page) ==
    \E n \in 1..MaxLinks :
        \E kinds \in [2..(n + 1) -> LinkKinds] :
            page = MkPage([i \in 1..(n + 1) |-> IF i = 1 THEN "body" ELSE kinds[i]],
                          [i \in 1..(n + 1) |-> IF i = 1 THEN 1 ELSE 2])

-----------------------------------------------------------------------------
(* extract_visible_text, statement by statement.                           *)

Walker == [content_blocks |-> content_blocks,
           current_heading |-> current_heading,
           block |-> block]

\* lines 72-73 raise: requests.get (transport failure, timeout) or
\* raise_for_status (a non-success status)
FetchRaises ==
    /\ xpc = "call"
    /\ \E exc \in RequestExceptions :
        /\ ret' = Handle(exc).ret
        /\ result' = Handle(exc).result
    /\ xpc' = "done"
    /\ UNCHANGED <<response, soup, social_links, content_blocks, current_heading,
                   block, it>>
    /\ UNCHANGED hvars

\* lines 72-74: the page is fetched and parsed
FetchParse ==
    /\ xpc = "call"
    /\ \/ IsTreeDoc(response')
       \/ IsWalkDoc(response')
       \/ IsLinkDoc(response')
    /\ soup' = response'
    /\ xpc' = "parsed"
    /\ UNCHANGED <<social_links, content_blocks, current_heading, block, it, ret,
                   result>>
    /\ UNCHANGED hvars

\* lines 76-78
Decompose ==
    /\ xpc = "parsed"
    /\ soup' = DecomposeNoise(soup)
    /\ xpc' = "filtered"
    /\ UNCHANGED <<response, social_links, content_blocks, current_heading, block,
                   it, ret, result>>
    /\ UNCHANGED hvars

\* lines 80-89, and the iterator of line 91 when there is a body
CollectLinks ==
    /\ xpc = "filtered"
    /\ social_links' = CollectSocialLinks(soup)
    /\ content_blocks' = <<>>
    /\ current_heading' = 0
    /\ block' = <<>>
    /\ it' = Body(soup) + 1
    /\ xpc' = "walk"
    /\ UNCHANGED <<response, soup, ret, result>>
    /\ UNCHANGED hvars

\* line 91 with soup.body None: AttributeError, caught at line 117
NoBody ==
    /\ xpc = "walk"
    /\ Body(soup) = 0
    /\ ret' = Handle("AttributeError").ret
    /\ result' = Handle("AttributeError").result
    /\ xpc' = "done"
    /\ UNCHANGED <<response, soup, social_links, content_blocks, current_heading,
                   block, it>>
    /\ UNCHANGED hvars

\* the loop of line 91 has a next element
HasNext == xpc = "walk" /\ Body(soup) # 0 /\ it <= End(soup, Body(soup))

\* lines 92-96
WalkHeading ==
    /\ HasNext
    /\ soup[it].tag \in HeadingTags
    /\ content_blocks' = Visit(soup, Walker, it).content_blocks
    /\ current_heading' = Visit(soup, Walker, it).current_heading
    /\ block' = Visit(soup, Walker, it).block
    /\ it' = it + 1
    /\ UNCHANGED <<xpc, response, soup, social_links, ret, result>>
    /\ UNCHANGED hvars

\* lines 97-100
WalkText ==
    /\ HasNext
    /\ soup[it].tag \notin HeadingTags
    /\ soup[it].tag \in TextTags
    /\ content_blocks' = Visit(soup, Walker, it).content_blocks
    /\ current_heading' = Visit(soup, Walker, it).current_heading
    /\ block' = Visit(soup, Walker, it).block
    /\ it' = it + 1
    /\ UNCHANGED <<xpc, response, soup, social_links, ret, result>>
    /\ UNCHANGED hvars

\* line 91: an element that matches neither branch
WalkOther ==
    /\ HasNext
    /\ soup[it].tag \notin HeadingTags
    /\ soup[it].tag \notin TextTags
    /\ content_blocks' = Visit(soup, Walker, it).content_blocks
    /\ current_heading' = Visit(soup, Walker, it).current_heading
    /\ block' = Visit(soup, Walker, it).block
    /\ it' = it + 1
    /\ UNCHANGED <<xpc, response, soup, social_links, ret, result>>
    /\ UNCHANGED hvars

\* lines 102-105
Terminal ==
    /\ xpc = "walk"
    /\ Body(soup) # 0
    /\ it > End(soup, Body(soup))
    /\ content_blocks' = TerminalFlush(soup, Walker)
    /\ xpc' = "flushed"
    /\ UNCHANGED <<response, soup, social_links, current_heading, block, it, ret,
                   result>>
    /\ UNCHANGED hvars

\* lines 107-113
Return ==
    /\ xpc = "flushed"
    /\ content_blocks' = AppendSocial(content_blocks, social_links)
    /\ result' = VisibleText(AppendSocial(content_blocks, social_links))
    /\ ret' = "visible_text"
    /\ xpc' = "done"
    /\ UNCHANGED <<response, soup, social_links, current_heading, block, it>>
    /\ UNCHANGED hvars

\* the state before the script's first run
HInit ==
    /\ pc = "idle"
    /\ uuid_next = 1
    /\ session_id = 0
    /\ chat_history = <<>>
    /\ last_url = <<>>
    /\ shown = <<>>
    /\ user_input = <<>>
    /\ raw = <<>>
    /\ reply = <<>>
    /\ container = <<>>
    /\ calls = {}
    /\ uncaught = "none"
    /\ submissions = <<>>

\* extract_visible_text not called
XIdle ==
    /\ xpc = "idle"
    /\ response = <<>>
    /\ soup = <<>>
    /\ social_links = {}
    /\ content_blocks = <<>>
    /\ current_heading = 0
    /\ block = <<>>
    /\ it = 0
    /\ ret = "none"
    /\ result = <<>>

InitExtract ==
    /\ xpc = "call"
    /\ response = <<>>
    /\ soup = <<>>
    /\ social_links = {}
    /\ content_blocks = <<>>
    /\ current_heading = 0
    /\ block = <<>>
    /\ it = 0
    /\ ret = "none"
    /\ result = <<>>
    /\ HInit

NextExtract ==
    \/ FetchRaises
    \/ FetchParse
    \/ Decompose
    \/ CollectLinks
    \/ NoBody
    \/ WalkHeading
    \/ WalkText
    \/ WalkOther
    \/ Terminal
    \/ Return

SpecExtract == InitExtract /\ [][NextExtract]_vars

-----------------------------------------------------------------------------
(* extract_visible_text as one call, for the script that calls it.         *)

RECURSIVE WalkFrom(_, _, _, _)
\* lines 91-100: the loop over the descendants i..last
WalkFrom(doc, w, i, last) ==
    IF i > last THEN w ELSE WalkFrom(doc, Visit(doc, w, i), i + 1, last)

\* lines 69-118; fetched is what lines 72-73 did: the exception they raised
\* (exc) or the page they got (page)
ExtractVisibleText(fetched) ==
    IF fetched.exc # "none" THEN Handle(fetched.exc)
    ELSE LET tree == DecomposeNoise(fetched.page)
             links == CollectSocialLinks(tree)
             start == [content_blocks |-> <<>>, current_heading |-> 0, block |-> <<>>]
         IN  IF Body(tree) = 0 THEN Handle("AttributeError")
             ELSE [ret |-> "visible_text",
                   result |-> VisibleText(AppendSocial(
                       TerminalFlush(tree, WalkFrom(tree, start, Body(tree) + 1,
                                                    End(tree, Body(tree)))),
                       links))]

-----------------------------------------------------------------------------
(* The script under Streamlit.                                             *)
(*                                                                         *)
(* Streamlit executes app.py from its first line on every interaction, so  *)
(* lines 45-46 run again at the start of every script run; only            *)
(* st.session_state outlives a run. st.button is True in the run its click *)
(* starts. clean_and_structure_text reads GPT_DEPLOYMENT_NAME at line 122, *)
(* a name app.py never binds: the call raises NameError before its try,    *)
(* so lines 124-150 and 201-202 never run and have no action here.         *)

El(tag, depth, text) ==
    [tag |-> tag, depth |-> depth, text |-> text, has_href |-> FALSE, href |-> <<>>]

Anchor(depth, href) ==
    [tag |-> "a", depth |-> depth, text |-> <<>>, has_href |-> TRUE, href |-> href]

\* <body><h2>News</h2><p>Hi</p><a href="t.me/1"></a></body>
PageNews ==
    <<El("body", 1, <<>>), El("h2", 2, <<"N","e","w","s">>), El("p", 2, <<"H","i">>),
      Anchor(2, <<"t",".","m","e","/","1">>)>>

\* <body><p>ERROR 5</p></body>
PageNotice == <<El("body", 1, <<>>), El("p", 2, <<"E","R","R","O","R"," ","5">>)>>

\* <p>Hi</p>
PageFragment == <<El("p", 1, <<"H","i">>)>>

WebPages == {PageNews, PageNotice, PageFragment}

\* the URLs the user may type
Urls ==
    {<<>>,
     <<"f","t","p",":","/","/","e">>,
     <<"h","t","t","p",":","/","/","e">>,
     <<"h","t","t","p","s",":","/","/","e">>,
     <<"h","t","t","p","x">>}

\* url names the http or https scheme
HasHttpScheme(url) ==
    \/ StartsWith(url, <<"h","t","t","p",":","/","/">>)
    \/ StartsWith(url, <<"h","t","t","p","s",":","/","/">>)

\* lines 72-73: what requests.get and raise_for_status can do for url. A URL
\* without an http or https scheme makes requests.get raise (MissingSchema,
\* InvalidSchema), RequestExceptions too.
Fetches(url) ==
    IF HasHttpScheme(url)
    THEN {[exc |-> e, page |-> <<>>] : e \in {"ConnectionError", "Timeout", "HTTPError"}}
           \cup {[exc |-> "none", page |-> d] : d \in WebPages}
    ELSE {[exc |-> "MissingSchema", page |-> <<>>]}

\* line 188: not user_input.startswith("http")
Rejected(url) == ~StartsWith(url, S_http)

\* line 195: raw.startswith("ERROR")
IsErrorString(text) == StartsWith(text, S_ERROR)

\* the last entry of the history replaced
Settle(outcome, text) ==
    [submissions EXCEPT ![Len(submissions)] =
        [url |-> submissions[Len(submissions)].url, outcome |-> outcome, response |-> text]]

\* the user sets the URL and clicks Extract Content: the script runs from the
\* top (lines 45-46), the button is True, lines 185-186 run
Click ==
    /\ pc = "idle"
    /\ Len(submissions) < MaxSubmissions
    /\ \E url \in Urls :
        /\ user_input' = url
        /\ last_url' = url
        /\ chat_history' = <<[role |-> "user", content |-> url]>>
        /\ submissions' = Append(submissions,
                                 [url |-> url, outcome |-> "running", response |-> <<>>])
    /\ session_id' = uuid_next
    /\ uuid_next' = uuid_next + 1
    /\ calls' = {}
    /\ uncaught' = "none"
    /\ raw' = <<>>
    /\ reply' = <<>>
    /\ ret' = "none"
    /\ result' = <<>>
    /\ pc' = "validate"
    /\ UNCHANGED <<shown, container>>
    /\ UNCHANGED <<xpc, response, soup, social_links, content_blocks, current_heading,
                   block, it>>

\* lines 188-190
Reject ==
    /\ pc = "validate"
    /\ Rejected(user_input)
    /\ reply' = S_invalid_url
    /\ calls' = calls \cup {"st.error"}
    /\ pc' = "record"
    /\ UNCHANGED <<uuid_next, session_id, chat_history, last_url, shown, user_input,
                   raw, container, uncaught, submissions>>
    /\ UNCHANGED xvars

\* lines 191-193
Scrape ==
    /\ pc = "validate"
    /\ ~Rejected(user_input)
    /\ \E fetched \in Fetches(user_input) :
        /\ raw' = ExtractVisibleText(fetched).result
        /\ result' = ExtractVisibleText(fetched).result
        /\ ret' = ExtractVisibleText(fetched).ret
    /\ calls' = calls \cup {"extract_visible_text", "requests.get"}
    /\ pc' = "branch"
    /\ UNCHANGED <<uuid_next, session_id, chat_history, last_url, shown, user_input,
                   reply, container, uncaught, submissions>>
    /\ UNCHANGED <<xpc, response, soup, social_links, content_blocks, current_heading,
                   block, it>>

\* lines 195-197
ScrapeFailed ==
    /\ pc = "branch"
    /\ IsErrorString(raw)
    /\ reply' = raw
    /\ calls' = calls \cup {"st.error"}
    /\ pc' = "record"
    /\ UNCHANGED <<uuid_next, session_id, chat_history, last_url, shown, user_input,
                   raw, container, uncaught, submissions>>
    /\ UNCHANGED xvars

\* lines 198-200 and 121-122: clean_and_structure_text(raw) is called and
\* raises NameError at line 122; nothing catches it and the script run ends
Structure ==
    /\ pc = "branch"
    /\ ~IsErrorString(raw)
    /\ calls' = calls \cup {"clean_and_structure_text"}
    /\ uncaught' = "NameError"
    /\ submissions' = Settle("raised", <<>>)
    /\ pc' = "idle"
    /\ UNCHANGED <<uuid_next, session_id, chat_history, last_url, shown, user_input,
                   raw, reply, container>>
    /\ UNCHANGED xvars

\* lines 204-206 and 153-158
Record ==
    /\ pc = "record"
    /\ chat_history' = Append(chat_history, [role |-> "bot", content |-> reply])
    /\ shown' = reply
    /\ container' = Append(container,
                           [id |-> uuid_next,
                            session_id |-> session_id,
                            chat |-> Append(chat_history,
                                            [role |-> "bot", content |-> reply])])
    /\ uuid_next' = uuid_next + 1
    /\ submissions' = Settle("recorded", reply)
    /\ pc' = "idle"
    /\ UNCHANGED <<session_id, last_url, user_input, raw, reply, calls, uncaught>>
    /\ UNCHANGED xvars

Init == XIdle /\ HInit

Next ==
    \/ Click
    \/ Reject
    \/ Scrape
    \/ ScrapeFailed
    \/ Structure
    \/ Record

Spec == Init /\ [][Next]_vars

-----------------------------------------------------------------------------
(* Properties of extract_visible_text, checked under SpecExtract.          *)

\* extract_visible_text returned the Structured Document (line 113)
ReturnedDocument == xpc = "done" /\ ret = "visible_text"

Last(q) == q[Len(q)]

\* the characters of s
Chars(s) == {s[i] : i \in DOMAIN s}

\* the elements of the fetched page that lie in a denylisted subtree
Noise == {i \in DOMAIN response :
            \E j \in 1..i : response[j].tag \in Denylist /\ i \in Subtree(response, j)}

\* the strings the walk holds or has emitted, and the returned string
Emitted == {block[i] : i \in DOMAIN block}
             \cup {content_blocks[i] : i \in DOMAIN content_blocks}
             \cup (IF ret = "visible_text" THEN {result} ELSE {})

\* an href that only anchors inside denylisted subtrees carry
OnlyInNoise(href) ==
    /\ \E i \in Noise : response[i].has_href /\ Strip(response[i].href) = href
    /\ \A i \in DOMAIN response \ Noise :
          response[i].has_href => Strip(response[i].href) # href

\* C1: the denylisted elements are removed before the links are collected and
\* before the walk, so while either runs the tree holds no denylisted element,
\* and no text and no href found only inside a denylisted subtree, at any
\* depth, is in a content block, in the links block or in the returned document.
C1_NoiseContributesNothing ==
    /\ xpc \in {"filtered", "walk", "flushed"} =>
          \A i \in DOMAIN soup : soup[i].tag \notin Denylist
    /\ (xpc \in {"walk", "flushed"} \/ ReturnedDocument) =>
          /\ \A i \in Noise : \A e \in Emitted :
                Chars(e) \cap (Chars(Strip(response[i].text))
                                 \cup Chars(Upper(Strip(response[i].text)))) = {}
          /\ \A i \in Noise :
                OnlyInNoise(Strip(response[i].href)) =>
                    /\ Strip(response[i].href) \notin social_links
                    /\ \A e \in Emitted : ~Contains(e, Strip(response[i].href))

\* a document came back whose page had text two levels inside a denylisted
\* element and an anchor inside one, next to content that was kept
C1_Witness ==
    /\ ReturnedDocument
    /\ result # <<>>
    /\ \E i \in Noise : response[i].has_href /\ IsSocial(response[i].href)
    /\ \E i \in Noise : response[i].text # <<>>
    /\ \E i \in Noise : \E j \in 1..i :
          response[j].tag \in Denylist /\ response[i].depth >= response[j].depth + 1

\* the social links block of the returned document, <<>> when it has none
LinksBlock ==
    IF content_blocks # <<>> /\ StartsWith(Last(content_blocks), S_social_heading)
    THEN Last(content_blocks)
    ELSE <<>>

\* the hrefs of the anchors of the filtered document that name a social domain
MatchingHrefs ==
    {Strip(soup[i].href) :
        i \in {k \in DOMAIN soup : soup[k].tag = "a" /\ soup[k].has_href
                                     /\ \E d \in DOMAIN social_domains :
                                           Contains(soup[k].href, social_domains[d])}}

\* the orderings of the set S in which every entry occurs exactly once
Listings(S) ==
    {f \in [1..Cardinality(S) -> S] : \A i, j \in DOMAIN f : i # j => f[i] # f[j]}

C6_NeverRaises ==
    /\ ret # "raised"
    /\ (xpc = "walk" /\ Body(soup) = 0) => ENABLED NoBody
    /\ xpc = "done" => ret \in {"visible_text", "request_error", "unexpected_error"}
    /\ (xpc = "done" /\ response = <<>>) => StartsWith(result, S_ERROR_colon)
    /\ (xpc = "done" /\ ret # "visible_text") => StartsWith(result, S_ERROR_colon)

\* a page without a body element was parsed and the call returned
C6_Witness ==
    /\ xpc = "done"
    /\ response # <<>>
    /\ Body(soup) = 0
    /\ ret = "unexpected_error"

-----------------------------------------------------------------------------
(* The content walk: headings, their blocks and the unlabelled block.      *)

\* the last descendant of the body
BodyEnd == End(soup, Body(soup))

RECURSIVE HeadingSeq(_, _)
\* the headings among the elements i..j of the filtered tree, in document order
HeadingSeq(i, j) ==
    IF i > j THEN <<>>
    ELSE (IF soup[i].tag \in HeadingTags THEN <<i>> ELSE <<>>) \o HeadingSeq(i + 1, j)

\* the headings of the body
BodyHeadings == HeadingSeq(Body(soup) + 1, BodyEnd)

\* the first heading after element h in document order, BodyEnd + 1 if none
NextHeading(h) ==
    IF \E j \in (h + 1)..BodyEnd : soup[j].tag \in HeadingTags
    THEN CHOOSE j \in (h + 1)..BodyEnd :
            /\ soup[j].tag \in HeadingTags
            /\ \A k \in (h + 1)..(j - 1) : soup[k].tag \notin HeadingTags
    ELSE BodyEnd + 1

RECURSIVE CollectedIn(_, _)
\* the non-empty texts of the p, li, div and span elements among i..j
CollectedIn(i, j) ==
    IF i > j THEN <<>>
    ELSE (IF soup[i].tag \in TextTags /\ GetText(soup, i) # <<>>
          THEN <<GetText(soup, i)>> ELSE <<>>) \o CollectedIn(i + 1, j)

\* the texts the walk collects between heading h and the next heading
CollectedSince(h) == CollectedIn(h + 1, NextHeading(h) - 1)

\* the elements that come after heading h has ended, up to the next heading
\* or the end of the body
FollowingHeading(h) ==
    {i \in (End(soup, h) + 1)..BodyEnd :
        \A j \in (End(soup, h) + 1)..i : soup[j].tag \notin HeadingTags}

RECURSIVE RawText(_, _)
\* the text nodes of elements i..j as they are, concatenated
RawText(i, j) == IF i > j THEN <<>> ELSE soup[i].text \o RawText(i + 1, j)

\* the heading-labelled blocks of the returned document, the links block aside
HeadingPart ==
    SelectSeq(content_blocks,
              LAMBDA b : StartsWith(b, S_open) /\ ~StartsWith(b, S_social_heading))

\* the block of title and texts
Labelled(title, texts) == S_open \o title \o S_close \o Join(texts, <<" ">>)

\* C2 as stated: when each of the N headings of the body is followed by
\* non-empty content, the document holds exactly N heading-labelled blocks, in
\* heading order, each titled with the heading's text trimmed and uppercased
\* and holding the space-joined texts collected since the heading.
C2_Stated ==
    (/\ ReturnedDocument
     /\ \A k \in DOMAIN BodyHeadings :
           \E i \in FollowingHeading(BodyHeadings[k]) : Strip(soup[i].text) # <<>>)
    => HeadingPart =
          [k \in DOMAIN BodyHeadings |->
              Labelled(Upper(Strip(RawText(BodyHeadings[k], End(soup, BodyHeadings[k])))),
                       CollectedSince(BodyHeadings[k]))]

\* C2 amended: when each of the N headings of the body is followed in document
\* order, before the next heading, by a p, li, div or span with non-empty text,
\* the document holds exactly N heading-labelled blocks, in heading order, each
\* titled with the heading's text nodes, each trimmed, concatenated and
\* uppercased, and holding the space-joined texts collected since the heading;
\* the blocks are joined by blank lines.
C2_HeadingBlocks ==
    (/\ ReturnedDocument
     /\ \A k \in DOMAIN BodyHeadings : CollectedSince(BodyHeadings[k]) # <<>>)
    => /\ HeadingPart =
             [k \in DOMAIN BodyHeadings |->
                 Labelled(Upper(GetText(soup, BodyHeadings[k])),
                          CollectedSince(BodyHeadings[k]))]
       /\ result = Join(content_blocks, <<"\n", "\n">>)

\* two headings, each with collected text, the first holding an element
C2_Witness ==
    /\ ReturnedDocument
    /\ Len(BodyHeadings) >= 2
    /\ \A k \in DOMAIN BodyHeadings : CollectedSince(BodyHeadings[k]) # <<>>
    /\ Len(HeadingPart) >= 2

\* the document holds a block labelled with heading h
HasBlockFor(h) ==
    \E i \in DOMAIN content_blocks :
        StartsWith(content_blocks[i], S_open \o Upper(GetText(soup, h)) \o S_close)

\* C3 as stated: a heading followed, up to the next heading or the end of the
\* body, only by whitespace or empty text-bearing containers has no block.
C3_Stated ==
    ReturnedDocument =>
        \A k \in DOMAIN BodyHeadings :
            (\A i \in FollowingHeading(BodyHeadings[k]) :
                /\ Strip(soup[i].text) = <<>>
                /\ soup[i].tag \in TextTags => GetText(soup, i) = <<>>)
            => ~HasBlockFor(BodyHeadings[k])

\* C3 amended: a heading that holds, and is followed up to the next heading in
\* document order or the end of the body by, nothing but whitespace and empty
\* text-bearing containers has no block.
C3_EmptyHeadingHasNoBlock ==
    ReturnedDocument =>
        \A k \in DOMAIN BodyHeadings :
            (\A i \in (BodyHeadings[k] + 1)..(NextHeading(BodyHeadings[k]) - 1) :
                /\ Strip(soup[i].text) = <<>>
                /\ soup[i].tag \in TextTags => GetText(soup, i) = <<>>)
            => ~HasBlockFor(BodyHeadings[k])

\* a heading followed by an empty span only, beside a heading that has a block
C3_Witness ==
    /\ ReturnedDocument
    /\ content_blocks # <<>>
    /\ \E k \in DOMAIN BodyHeadings :
          /\ BodyHeadings[k] + 1 <= NextHeading(BodyHeadings[k]) - 1
          /\ \A i \in (BodyHeadings[k] + 1)..(NextHeading(BodyHeadings[k]) - 1) :
                soup[i].tag = "span" /\ GetText(soup, i) = <<>>
          /\ ~HasBlockFor(BodyHeadings[k])

\* an unlabelled block
IsBare(b) == ~StartsWith(b, S_open)

\* the walk has visited no heading so far
NoHeadingVisited == \A i \in (Body(soup) + 1)..(it - 1) : soup[i].tag \notin HeadingTags

\* C9: a visit of a heading starts a fresh context and does not flush the text
\* collected before the first heading; the terminal step emits an unlabelled,
\* newline-joined block exactly when no heading was visited and the residual
\* block is non-empty; so the returned document holds an unlabelled block only
\* if it holds no heading's block, and then as its first block.
C9_Step ==
    /\ (HasNext /\ soup[it].tag \in HeadingTags /\ it' = it + 1) =>
          /\ block' = <<>>
          /\ current_heading' = it
          /\ NoHeadingVisited => content_blocks' = content_blocks
    /\ xpc' = "walk" => \A i \in DOMAIN content_blocks' : ~IsBare(content_blocks'[i])
    /\ (xpc = "walk" /\ xpc' = "flushed") =>
          /\ (NoHeadingVisited /\ block # <<>>) <=>
                (/\ Len(content_blocks') = Len(content_blocks) + 1
                 /\ IsBare(Last(content_blocks')))
          /\ (NoHeadingVisited /\ block # <<>>) =>
                content_blocks' = <<Join(block, <<"\n">>)>>
    /\ (xpc' = "done" /\ ret' = "visible_text") =>
          \A i \in DOMAIN content_blocks' :
              IsBare(content_blocks'[i]) =>
                  /\ i = 1
                  /\ StartsWith(result', content_blocks'[1])
                  /\ \A j \in DOMAIN content_blocks' \ {1} :
                        StartsWith(content_blocks'[j], S_social_heading)

C9_FreshContext == [][C9_Step]_vars

\* text was collected before the first heading, and the document came back
\* with that heading's block and without the earlier text
C9_Witness ==
    /\ ReturnedDocument
    /\ BodyHeadings # <<>>
    /\ CollectedIn(Body(soup) + 1, BodyHeadings[1] - 1) # <<>>
    /\ HeadingPart # <<>>
    /\ \A i \in DOMAIN content_blocks : ~IsBare(content_blocks[i])

-----------------------------------------------------------------------------
(* Properties of the script, checked under Spec.                           *)

\* the current script run has decided what to do with the submitted URL
Decided == submissions # <<>> /\ pc \in {"branch", "record", "idle"}

\* C5: a submitted URL that does not begin with http:// or https:// is
\* rejected with the validation message, and neither the page fetch nor
\* clean_and_structure_text is called for it.
C5_Stated ==
    (Decided /\ ~HasHttpScheme(user_input)) =>
        /\ calls \cap {"extract_visible_text", "requests.get",
                       "clean_and_structure_text"} = {}
        /\ pc = "record" => reply = S_invalid_url

\* C7: every call of clean_and_structure_text returns a string, no exception
\* leaves it, and the handler goes on to record the bot turn and to save.
C7_Stated ==
    "clean_and_structure_text" \in calls =>
        /\ uncaught = "none"
        /\ pc = "idle" => Last(submissions).outcome = "recorded"

RECURSIVE Exchange(_)
\* a user turn with the URL, then a bot turn with the response, per submission
Exchange(subs) ==
    IF subs = <<>> THEN <<>>
    ELSE Exchange(SubSeq(subs, 1, Len(subs) - 1))
           \o <<[role |-> "user", content |-> Last(subs).url],
                [role |-> "bot", content |-> Last(subs).response]>>

\* C8: the record upserted by the latest submission carries the session's
\* identifier and the whole exchange of the session so far.
C8_Stated ==
    (pc = "idle" /\ submissions # <<>> /\ Last(submissions).outcome = "recorded") =>
        /\ container # <<>>
        /\ Last(container).chat = Exchange(submissions)
        /\ \A i \in DOMAIN container : container[i].session_id = container[1].session_id

\* C10: for a URL that passed validation, clean_and_structure_text is called
\* exactly when extract_visible_text returned a document, and with that
\* document; a failed extraction's error string is the response.
C10_Stated ==
    ("extract_visible_text" \in calls /\ pc \in {"record", "idle"}) =>
        /\ ("clean_and_structure_text" \in calls) <=> (ret = "visible_text")
        /\ "clean_and_structure_text" \in calls => raw = result
        /\ (ret # "visible_text" /\ pc = "record") => reply = result

====
